---- MODULE Spec2Model ----
(***************************************************************************)
(* Image-Uploader: the upload transaction of ImageUploader.handleUpload    *)
(* (validation, per-file store write and record insert with compensation,  *)
(* best-effort classification), the pending selection kept by onDrop and   *)
(* removeFile, the two useImages readers (Dashboard's and ImageGallery's)  *)
(* and ImageCard.handleDelete, over one object store and one user_images   *)
(* table.                                                                  *)
(*                                                                         *)
(* JavaScript runs one continuation at a time: every action below is the   *)
(* code that runs between two awaits of one handler, together with the     *)
(* service's answer that resumes it.                                       *)
(***************************************************************************)
EXTENDS Integers, Sequences, FiniteSets

\* ------------------------------------------------------------- constants

\* ImageUploader.jsx:18, const maxImages = 60.
maxImages == 60

\* Bounds of the model.
MaxFree == 2     \* the table starts with maxImages - MaxFree .. maxImages rows
MaxBatches == 2  \* handleUpload invocations that pass validation
MaxDeletes == 1  \* handleDelete invocations in a session
MaxDrops == 1    \* onDrop invocations in a session
MaxClock == MaxBatches  \* largest value Date.now() takes, in ticks from the start

\* File names of the dropped files; two files may carry the same name.
Names == {"a", "b"}

\* The authenticated user's id, and useAuth's user when nobody is signed in.
UserId == "u1"
NoUser == "none"

VARIABLES
    \* ---- environment
    user,             \* useAuth().user: UserId or NoUser
    now,              \* the last value Date.now() returned
    \* ---- the backend: bucket profile-images and table user_images
    objects,          \* storage keys that hold an object
    records,          \* id -> row of user_images
    otherRows,        \* the user's further rows, which the session never names
    nextId,           \* the id the next inserted row gets
    \* ---- useImages, Dashboard's instance and ImageGallery's instance
    images,           \* Dashboard: the rows of the last answer
    fetching,         \* Dashboard: a fetchImages query is in flight
    galleryImages,    \* ImageGallery: the rows of the last answer
    galleryFetching,  \* ImageGallery: a fetchImages query is in flight
    \* ---- ImageUploader's state
    selectedFiles, previews, fileSizeInfo,
    uploading, uploadProgress, analyzing,
    toast,            \* the last notification ImageUploader emitted
    drops,            \* onDrop invocations in progress
    readers,          \* preview FileReaders that have not fired onloadend
    \* ---- the running handleUpload invocation
    pc,               \* the await it is suspended at, "idle" when none runs
    batch,            \* the selectedFiles its closure captured
    idx,              \* index in batch of the file being uploaded
    storagePath,      \* storagePath of that file
    uploadedImages,   \* rows inserted so far (uploadedImages)
    cidx,             \* index in uploadedImages of the row being classified
    analysisResult,   \* analyzeStoolImage's result for that row
    before,           \* the store as the invocation found it (for the claims)
    \* ---- ImageCard
    delPc,            \* the await the running handleDelete is suspended at
    delImage,         \* the image prop of the card it runs in
    deleting,         \* ids of the cards whose deleting state is true
    cardToast,        \* the last notification an ImageCard emitted
    \* ---- counters that bound the session
    nDrops, nBatches, nDeletes,
    \* ---- resizeImage
    resize,           \* the resizeImage invocation under way
    \* ---- useImages.fetchImages as a query
    query,            \* the table it reads, where it stands, what it set
    \* ---- ImageCard
    cards,            \* per displayed image: loading, imageUrl
    clock             \* seconds since the gallery was rendered

vars == <<user, now, objects, records, otherRows, nextId, images, fetching, galleryImages,
          galleryFetching, selectedFiles, previews, fileSizeInfo, uploading,
          uploadProgress, analyzing, toast, drops, readers, pc, batch, idx,
          storagePath, uploadedImages, cidx, analysisResult, before, delPc,
          delImage, deleting, cardToast, nDrops, nBatches, nDeletes, resize,
          query, cards, clock>>

\* Everything but resizeImage's invocation.
sessionVars == <<user, now, objects, records, otherRows, nextId, images, fetching,
                 galleryImages, galleryFetching, selectedFiles, previews,
                 fileSizeInfo, uploading, uploadProgress, analyzing, toast,
                 drops, readers, pc, batch, idx, storagePath, uploadedImages,
                 cidx, analysisResult, before, delPc, delImage, deleting,
                 cardToast, nDrops, nBatches, nDeletes>>

backendVars == <<objects, records, otherRows, nextId>>
readerVars == <<images, fetching, galleryImages, galleryFetching>>
pendingVars == <<selectedFiles, previews, fileSizeInfo>>
dropVars == <<drops, readers, nDrops>>
batchVars == <<batch, idx, storagePath, uploadedImages, cidx, analysisResult, before>>
deleteVars == <<delPc, delImage, deleting, cardToast, nDeletes>>

\* ----------------------------------------------------------------- helpers

Min(a, b) == IF a <= b THEN a ELSE b
Max(a, b) == IF a >= b THEN a ELSE b

\* Array.prototype.slice(0, n): a negative n counts from the end.
Slice0(s, n) ==
    IF n >= 0 THEN SubSeq(s, 1, Min(n, Len(s)))
    ELSE SubSeq(s, 1, Max(Len(s) + n, 0))

\* Array.prototype.filter((_, i) => i !== index), index counted from 1 here.
RemoveAt(s, i) ==
    [k \in 1..(Len(s) - (IF i \in 1..Len(s) THEN 1 ELSE 0)) |->
        IF k < i THEN s[k] ELSE s[k + 1]]

\* `${user.id}/${timestamp}_${file.name}`: the timestamp is all digits, so
\* the string determines its three parts.
StoragePath(uid, timestamp, name) == [uid |-> uid, ts |-> timestamp, name |-> name]

NoPath == StoragePath(NoUser, 0, "")

\* A notification: its kind, and the number or file name its text carries.
Toast(kind, n, name) == [kind |-> kind, n |-> n, name |-> name]
NoToast == Toast("none", 0, "")

\* The row insert() creates: the three columns handleUpload passes, the
\* analysis columns empty (a nullable column is <<>> or <<value>>).
NewRow(id, uid, path) ==
    [id |-> id, user_id |-> uid, storage_path |-> path, is_analyzed |-> FALSE,
     bristol_score |-> <<>>, size_score |-> <<>>, health_indicators |-> <<>>,
     analysis_notes |-> <<>>, warnings |-> <<>>]

\* A row of an earlier session, uploaded i ticks before this one started.
OldRow(i) ==
    [id |-> i, user_id |-> UserId, storage_path |-> StoragePath(UserId, 0 - i, "a"),
     is_analyzed |-> TRUE, bristol_score |-> <<>>, size_score |-> <<>>,
     health_indicators |-> <<>>, analysis_notes |-> <<>>, warnings |-> <<>>]

\* .eq('user_id', user.id) over user_images.
RowsOf(uid) == {i \in DOMAIN records : records[i].user_id = uid}

\* The user's rows in the table: the rows of records and the further rows
\* of earlier sessions. The session names none of the latter (no card of
\* theirs is pressed, no derived storage path is theirs), so each stays in
\* the table with its object and only their number is kept.
RowCount(uid) == Cardinality(RowsOf(uid)) + otherRows

\* What a fetchImages query answers: the user's rows, of which the
\* components read the id and the storage_path; the further rows by number.
Image(row) == [id |-> row.id, storage_path |-> row.storage_path]
SelectImages(uid) == [rows |-> {Image(records[i]) : i \in RowsOf(uid)},
                      others |-> otherRows]
NoImages == [rows |-> {}, others |-> 0]
\* images.length
Length(imgs) == Cardinality(imgs.rows) + imgs.others

\* analyzeStoolImage's result, of which handleUpload reads these seven:
\* healthIndicators is an object in every result, warnings an array, and
\* the three others are null (<<>>) or a value.
Result(success, relevant, bristol, size, health, warnings, notes) ==
    [success |-> success, isRelevant |-> relevant,
     bristolScore |-> bristol, sizeEstimation |-> size,
     healthIndicators |-> health, warnings |-> warnings,
     notes |-> notes]
NoResult == Result(FALSE, FALSE, <<>>, <<>>, "nulls", <<>>, <<>>)

\* The objects and the rows of the store.
Store == [objects |-> objects, rows |-> DOMAIN records]
NoStore == [objects |-> {}, rows |-> {}]

\* Date.now(): the clock's value, which is the last value read or a later one.
ClockReads == {t \in now..(now + 1) : t <= MaxClock}

\* What a call to the backend can answer. Row Level Security rejects every
\* call of a client that is no longer signed in.
Answers == IF user = NoUser THEN {"error"} ELSE {"ok", "error"}

\* --------------------------------------------------------------- resizeImage

\* ImageUploader.jsx:20-21 and 58.
MAX_WIDTH == 1920
MAX_FILE_SIZE == 2 * 1024 * 1024
maxAttempts == 5

\* A File holding an image: the object's identity, the pixel size of the
\* image it decodes to and its byte size.
ImageFile(id, width, height, size) ==
    [id |-> id, width |-> width, height |-> height, size |-> size]
NoFile == ImageFile(0, 0, 0, 0)

\* What resizeImage resolves with.
Resized(file, originalSize, newSize, compressed) ==
    [file |-> file, originalSize |-> originalSize, newSize |-> newSize,
     wasCompressed |-> compressed]
NoResized == Resized(NoFile, 0, 0, FALSE)

\* One resizeImage invocation: where it stands, its file, the canvas size,
\* quality as the number of times 0.1 was subtracted from 0.9, attempts, the
\* value it resolved with; and, for an invocation on the file of an earlier
\* one, what that one resolved with.
Resizing(at, file, width, height, quality, attempts, result, pass, first) ==
    [pc |-> at, file |-> file, width |-> width, height |-> height,
     quality |-> quality, attempts |-> attempts, result |-> result,
     pass |-> pass, first |-> first]
NoResize == Resizing("idle", NoFile, 0, 0, 0, 0, NoResized, 0, NoResized)

\* resizeImage(file) up to img.onload.
StartResize(file, pass, first) ==
    Resizing("decode", file, 0, 0, 0, 0, NoResized, pass, first)

\* Variant of needsResize that also re-encodes a file exactly at a limit.
needsResizeAtLimit(width, size) == width >= MAX_WIDTH \/ size >= MAX_FILE_SIZE

\* const needsResize = width > MAX_WIDTH || file.size > MAX_FILE_SIZE
needsResize(width, size) == width > MAX_WIDTH \/ size > MAX_FILE_SIZE

\* quality > 0.5 after k subtractions of 0.1 from 0.9 in IEEE doubles: the
\* values are 0.9, 0.8, 0.7000000000000001, 0.6000000000000001,
\* 0.5000000000000001, 0.40000000000000013.
AboveFloor(k) == k <= 4

\* canvas.height = (height * MAX_WIDTH) / width: the attribute is an
\* unsigned long, so the quotient is truncated.
ScaledHeight(width, height) == (height * MAX_WIDTH) \div width

\* img.onload: a file within both limits is resolved as it is; otherwise the
\* image is drawn on a canvas at most MAX_WIDTH wide and the first toBlob is
\* requested at quality 0.9.
ImageLoaded ==
    /\ resize.pc = "decode"
    /\ LET file == resize.file
       IN  IF needsResize(file.width, file.size)
           THEN LET wide == file.width > MAX_WIDTH
                    width == IF wide THEN MAX_WIDTH ELSE file.width
                    height == IF wide THEN ScaledHeight(file.width, file.height)
                              ELSE file.height
                IN  resize' = [resize EXCEPT !.pc = "encode", !.width = width,
                                             !.height = height, !.quality = 0,
                                             !.attempts = 0]
           ELSE resize' = [resize EXCEPT !.pc = "resolved",
                               !.result = Resized(file, file.size, file.size, FALSE)]
    /\ UNCHANGED <<sessionVars, query, cards, clock>>

\* The file cannot be read or decoded as an image: the FileReader or the
\* Image fires its error event, for which resizeImage sets no handler, so
\* neither onload runs and the promise is never resolved.
ImageFails ==
    /\ resize.pc = "decode"
    /\ resize' = [resize EXCEPT !.pc = "unreadable"]
    /\ UNCHANGED <<sessionVars, query, cards, clock>>

\* The byte sizes an encoding can have.
BlobSizes == {MAX_FILE_SIZE - 1, MAX_FILE_SIZE, MAX_FILE_SIZE + 1}

\* The toBlob callback. A canvas without pixels gives a null blob, and
\* blob.size throws in the callback: the promise is never resolved.
\* Otherwise the blob is re-encoded at a lower quality or wrapped in a new
\* File and resolved.
BlobReady ==
    /\ resize.pc = "encode"
    /\ IF resize.width = 0 \/ resize.height = 0
       THEN resize' = [resize EXCEPT !.pc = "thrown"]
       ELSE \E size \in BlobSizes :
            IF size > MAX_FILE_SIZE /\ AboveFloor(resize.quality)
               /\ resize.attempts < maxAttempts
            THEN resize' = [resize EXCEPT !.quality = @ + 1, !.attempts = @ + 1]
            ELSE LET newFile == ImageFile(resize.file.id + 1, resize.width,
                                          resize.height, size)
                 IN  resize' = [resize EXCEPT !.pc = "resolved",
                                    !.result = Resized(newFile, resize.file.size,
                                                       size, TRUE)]
    /\ UNCHANGED <<sessionVars, query, cards, clock>>

\* resizeImage is called on the file an invocation resolved with.
ResizeAgain ==
    /\ resize.pc = "resolved"
    /\ resize.pass = 1
    /\ resize' = StartResize(resize.result.file, 2, resize.result)
    /\ UNCHANGED <<sessionVars, query, cards, clock>>

\* The images resizeImage is called with: widths and byte sizes below, at
\* and above the limits, heights of one pixel and of a photograph.
Files ==
    {ImageFile(1, w, h, z) :
        w \in {1280, MAX_WIDTH, MAX_WIDTH + 1, 2 * MAX_WIDTH},
        h \in {1, 1081},
        z \in {MAX_FILE_SIZE - 1, MAX_FILE_SIZE, MAX_FILE_SIZE + 1}}

\* ------------------------------------------------------- fetchImages' query

MaxRows == 3
OtherUser == "u2"

\* A row of user_images as the query reads it: display_order is nullable
\* (<<>> or <<n>>), created_at a timestamp.
OrderedRow(id, uid, order, created) ==
    [id |-> id, user_id |-> uid, display_order |-> order, created_at |-> created]

\* The tables the query is run on: up to MaxRows rows of two users, with
\* equal, distinct and absent display_order and equal and distinct
\* created_at.
Tables ==
    UNION {[1..n -> {OrderedRow(0, uid, order, created) :
                        uid \in {UserId, OtherUser},
                        order \in {<<>>, <<1>>, <<2>>},
                        created \in 1..2}] : n \in 0..MaxRows}
Table(t) == {[t[i] EXCEPT !.id = i] : i \in DOMAIN t}

\* One run of fetchImages: the table, where the run stands, and images.
Query(table, at, data) == [table |-> table, pc |-> at, images |-> data]
NoQuery == Query({}, "idle", <<>>)

\* Variant of Precedes that orders by display_order alone.
PrecedesByOrderOnly(a, b) ==
    \/ a.display_order # <<>> /\ b.display_order = <<>>
    \/ /\ a.display_order # <<>> /\ b.display_order # <<>>
       /\ a.display_order[1] < b.display_order[1]

\* .order('display_order', { ascending: true })
\* .order('created_at', { ascending: false }): a comes before b. Ascending
\* puts nulls last.
Precedes(a, b) ==
    \/ a.display_order # <<>> /\ b.display_order = <<>>
    \/ /\ a.display_order # <<>> /\ b.display_order # <<>>
       /\ a.display_order[1] < b.display_order[1]
    \/ a.display_order = b.display_order /\ a.created_at > b.created_at

\* The arrays the query can answer with over a set of rows: each row once,
\* no row after one it precedes; rows equal in both keys come in any order.
Ordered(rows) ==
    {data \in [1..Cardinality(rows) -> rows] :
        /\ \A i, j \in DOMAIN data : i # j => data[i] # data[j]
        /\ \A i, j \in DOMAIN data : i < j => ~Precedes(data[j], data[i])}

\* .select('*').eq('user_id', user.id) with the two orders.
SelectOrdered(table, uid) == Ordered({row \in table : row.user_id = uid})

\* fetchImages up to the await of the query (user is set).
fetchImages ==
    /\ query.pc = "idle"
    /\ query' = [query EXCEPT !.pc = "select"]
    /\ UNCHANGED <<sessionVars, resize, cards, clock>>

\* The query answers: setImages(data || []), or fetchError is thrown and
\* images stays as it was.
SelectReturns ==
    /\ query.pc = "select"
    /\ \/ \E data \in SelectOrdered(query.table, UserId) :
            query' = [query EXCEPT !.pc = "done", !.images = data]
       \/ query' = [query EXCEPT !.pc = "failed"]
    /\ UNCHANGED <<sessionVars, resize, cards, clock>>

\* ------------------------------------------------------------------ ImageCard

MaxCards == 2
MaxTicks == 4

\* createSignedUrl(image.storage_path, 3600): seconds until the URL expires.
Expiry == 3600

\* The clock advances by half the expiry.
Step == Expiry \div 2

\* An ImageCard: its loading and imageUrl state (null is <<>>; a signed URL
\* is known by its path and the time it expires), and whether its
\* createSignedUrl request is in flight.
Card(loading, imageUrl, pending) ==
    [loading |-> loading, imageUrl |-> imageUrl, pending |-> pending]
SignedUrl(path, expires) == [path |-> path, expires |-> expires]

\* No gallery is rendered.
NoCards == <<>>

\* ImageGallery has rendered one ImageCard per image: useState(null),
\* useState(true), and the effect has called getSignedUrl.
MountedCards == [i \in 1..MaxCards |-> Card(TRUE, <<>>, TRUE)]

\* Variant of SignedUrlReturns without the finally block.
SignedUrlReturnsNoFinally(i) ==
    /\ i \in DOMAIN cards
    /\ cards[i].pending
    /\ \/ cards' = [cards EXCEPT ![i] =
                        Card(FALSE, <<SignedUrl(i, clock + Expiry)>>, FALSE)]
       \/ cards' = [cards EXCEPT ![i] = Card(TRUE, <<>>, FALSE)]
    /\ UNCHANGED <<sessionVars, resize, query, clock>>

\* getSignedUrl of card i resumes: setImageUrl(data.signedUrl), or the
\* error is thrown, caught and logged; finally setLoading(false).
SignedUrlReturns(i) ==
    /\ i \in DOMAIN cards
    /\ cards[i].pending
    /\ \/ cards' = [cards EXCEPT ![i] =
                        Card(FALSE, <<SignedUrl(i, clock + Expiry)>>, FALSE)]
       \/ cards' = [cards EXCEPT ![i] = Card(FALSE, <<>>, FALSE)]
    /\ UNCHANGED <<sessionVars, resize, query, clock>>

\* Time passes while the gallery stays rendered: the effect of a card
\* depends on image.storage_path alone, so nothing runs.
Tick ==
    /\ cards # NoCards
    /\ clock < MaxTicks * Step
    /\ clock' = clock + Step
    /\ UNCHANGED <<sessionVars, resize, query, cards>>

\* ------------------------------------------------------------------- Init

InitSession ==
    /\ user = UserId
    /\ now = 0
    /\ \E n \in (maxImages - MaxFree)..maxImages :
        /\ records = [i \in 1..MaxDeletes |-> OldRow(i)]
        /\ objects = {OldRow(i).storage_path : i \in 1..MaxDeletes}
        /\ otherRows = n - MaxDeletes
        /\ nextId = MaxDeletes + 1
    /\ images = NoImages /\ fetching = TRUE
    /\ galleryImages = NoImages /\ galleryFetching = TRUE
    /\ selectedFiles = <<>> /\ previews = <<>> /\ fileSizeInfo = <<>>
    /\ uploading = FALSE /\ uploadProgress = 0 /\ analyzing = FALSE
    /\ toast = NoToast
    /\ drops = <<>> /\ readers = [n \in Names |-> 0]
    /\ pc = "idle" /\ batch = <<>> /\ idx = 0
    /\ storagePath = NoPath
    /\ uploadedImages = <<>> /\ cidx = 0 /\ analysisResult = NoResult
    /\ before = NoStore
    /\ delPc = "idle" /\ delImage = Image(OldRow(1))
    /\ deleting = {} /\ cardToast = NoToast
    /\ nDrops = 0 /\ nBatches = 0 /\ nDeletes = 0

\* The dashboard as it is mounted, no resizeImage invocation under way.
Init ==
    /\ InitSession
    /\ resize = NoResize
    /\ query = NoQuery
    /\ cards = NoCards
    /\ clock = 0

\* ---------------------------------------------------------------- useImages

\* The answer to Dashboard's fetchImages query arrives: the user's rows as
\* they are now, or an error, which leaves images as it was.
FetchImagesReturns ==
    /\ fetching
    /\ \E answer \in Answers :
        images' = IF answer = "ok" THEN SelectImages(UserId) ELSE images
    /\ fetching' = FALSE
    /\ UNCHANGED <<query, cards, clock, resize, user, now, backendVars, galleryImages, galleryFetching,
                   pendingVars, uploading, uploadProgress, analyzing, toast,
                   dropVars, pc, batchVars, deleteVars, nBatches>>

\* The same for ImageGallery's own useImages instance.
GalleryFetchReturns ==
    /\ galleryFetching
    /\ \E answer \in Answers :
        galleryImages' = IF answer = "ok" THEN SelectImages(UserId) ELSE galleryImages
    /\ galleryFetching' = FALSE
    /\ UNCHANGED <<query, cards, clock, resize, user, now, backendVars, images, fetching,
                   pendingVars, uploading, uploadProgress, analyzing, toast,
                   dropVars, pc, batchVars, deleteVars, nBatches>>

\* Dashboard's Sign Out button: user becomes null, and the effect of each
\* useImages instance runs fetchImages again, which empties images.
SignOut ==
    /\ user = UserId
    /\ user' = NoUser
    /\ images' = NoImages
    /\ galleryImages' = NoImages
    /\ UNCHANGED <<query, cards, clock, resize, now, backendVars, fetching, galleryFetching,
                   pendingVars, uploading, uploadProgress, analyzing, toast,
                   dropVars, pc, batchVars, deleteVars, nBatches>>

\* ------------------------------------------------------- ImageUploader

currentImageCount == Length(images)
remainingSlots == maxImages - currentImageCount
\* Variant of canUpload that leaves the button enabled while analyzing.
canUploadWhileAnalyzing == remainingSlots > 0 /\ Len(selectedFiles) > 0 /\ ~uploading

canUpload == remainingSlots > 0 /\ Len(selectedFiles) > 0 /\ ~uploading /\ ~analyzing
dropzoneDisabled == remainingSlots <= 0 \/ uploading

\* Dropped files that exceed MAX_WIDTH or MAX_FILE_SIZE: resizeImage
\* re-encodes these and passes the others through.
Oversized == {"b"}
wasCompressed(name) == name \in Oversized

\* onDrop up to its first await: the slots are computed from the render's
\* selectedFiles and remainingSlots, and the first file goes to resizeImage.
onDrop(acceptedFiles) ==
    LET availableSlots == remainingSlots - Len(selectedFiles)
        filesToAdd == Slice0(acceptedFiles, availableSlots)
    IN  /\ ~dropzoneDisabled
        /\ nDrops < MaxDrops
        /\ nDrops' = nDrops + 1
        /\ drops' = IF filesToAdd = <<>> THEN drops
                    ELSE Append(drops, [files |-> filesToAdd, done |-> 0])
        /\ UNCHANGED <<query, cards, clock, resize, user, now, backendVars, readerVars, pendingVars,
                       uploading, uploadProgress, analyzing, toast, readers,
                       pc, batchVars, deleteVars, nBatches>>

\* resizeImage resolves for the next file of drop d: its preview reader is
\* started; after the last file the processed files are appended to
\* selectedFiles and their size info to fileSizeInfo.
onDropResized(d) ==
    LET drop == drops[d]
        file == drop.files[drop.done + 1]
        last == drop.done + 1 = Len(drop.files)
        sizeInfo == [k \in 1..Len(drop.files) |->
                        [name |-> drop.files[k],
                         wasCompressed |-> wasCompressed(drop.files[k])]]
        compressed == {k \in 1..Len(drop.files) : sizeInfo[k].wasCompressed}
    IN  /\ readers' = [readers EXCEPT ![file] = @ + 1]
        /\ IF last
           THEN /\ selectedFiles' = selectedFiles \o drop.files
                /\ fileSizeInfo' = fileSizeInfo \o sizeInfo
                /\ toast' = IF compressed # {}
                            THEN Toast("Compressed", Cardinality(compressed), "")
                            ELSE toast
                /\ drops' = RemoveAt(drops, d)
           ELSE /\ drops' = [drops EXCEPT ![d].done = @ + 1]
                /\ UNCHANGED <<selectedFiles, fileSizeInfo, toast>>
        /\ UNCHANGED <<query, cards, clock, resize, user, now, backendVars, readerVars, previews,
                       uploading, uploadProgress, analyzing, nDrops,
                       pc, batchVars, deleteVars, nBatches>>

\* reader.onloadend of one preview reader.
PreviewLoaded(name) ==
    /\ readers[name] > 0
    /\ readers' = [readers EXCEPT ![name] = @ - 1]
    /\ previews' = Append(previews, name)
    /\ UNCHANGED <<query, cards, clock, resize, user, now, backendVars, readerVars, selectedFiles,
                   fileSizeInfo, uploading, uploadProgress, analyzing, toast,
                   drops, nDrops, pc, batchVars, deleteVars, nBatches>>

\* The X button of the preview at position index (disabled while uploading).
removeFile(index) ==
    /\ ~uploading
    /\ index \in 1..Len(previews)
    /\ selectedFiles' = RemoveAt(selectedFiles, index)
    /\ previews' = RemoveAt(previews, index)
    /\ fileSizeInfo' = RemoveAt(fileSizeInfo, index)
    /\ UNCHANGED <<query, cards, clock, resize, user, now, backendVars, readerVars,
                   uploading, uploadProgress, analyzing, toast,
                   dropVars, pc, batchVars, deleteVars, nBatches>>

\* ------------------------------------------------- handleUpload: validation

\* Variant of Validation without the check of the batch against the
\* remaining quota (lines 167-170 left out).
ValidationNoBatchCheck(count, n, u) ==
    IF count >= 60 THEN Toast("LimitReached", 0, "")
    ELSE IF u = NoUser THEN Toast("NotLoggedIn", 0, "")
    ELSE NoToast

\* The three checks that follow the empty-selection return: the toast of the
\* first that fails, NoToast when all pass.
Validation(count, n, u) ==
    IF count >= 60 THEN Toast("LimitReached", 0, "")
    ELSE IF count + n > 60 THEN Toast("OnlyMore", 60 - count, "")
    ELSE IF u = NoUser THEN Toast("NotLoggedIn", 0, "")
    ELSE NoToast

\* Variant of Reject that also clears the form, as the end of a batch does.
RejectAndClear(message) ==
    /\ toast' = message
    /\ selectedFiles' = <<>>
    /\ previews' = <<>>
    /\ fileSizeInfo' = <<>>
    /\ UNCHANGED <<query, cards, clock, resize, user, now, backendVars, readerVars, uploading,
                   uploadProgress, analyzing, dropVars, pc, batchVars,
                   deleteVars, nBatches>>

\* toast.error(...); return: nothing but the notification changes.
Reject(message) ==
    /\ toast' = message
    /\ UNCHANGED <<query, cards, clock, resize, user, now, backendVars, readerVars, pendingVars, uploading,
                   uploadProgress, analyzing, dropVars, pc, batchVars,
                   deleteVars, nBatches>>

\* Variant of StartFile that takes the files from the end of the selection.
StartFileReversed(i, files) ==
    \E timestamp \in ClockReads :
        /\ now' = timestamp
        /\ idx' = i
        /\ storagePath' = StoragePath(UserId, timestamp, files[Len(files) + 1 - i])
        /\ pc' = "storage"

\* The top of one loop iteration: the timestamp is read, the storage path is
\* derived from it and the file's upload is sent.
StartFile(i, files) ==
    \E timestamp \in ClockReads :
        /\ now' = timestamp
        /\ idx' = i
        /\ storagePath' = StoragePath(UserId, timestamp, files[i])
        /\ pc' = "storage"

\* The Upload button, enabled when canUpload: handleUpload up to its first
\* await.
handleUpload ==
    /\ canUpload
    /\ Len(selectedFiles) # 0
    /\ LET verdict == Validation(currentImageCount, Len(selectedFiles), user)
       IN  IF verdict # NoToast
           THEN Reject(verdict)
           ELSE /\ nBatches < MaxBatches
                /\ nBatches' = nBatches + 1
                /\ uploading' = TRUE
                /\ uploadProgress' = 0
                /\ batch' = selectedFiles
                /\ uploadedImages' = <<>>
                /\ before' = Store
                /\ StartFile(1, selectedFiles)
                /\ UNCHANGED <<query, cards, clock, resize, user, backendVars, readerVars, pendingVars,
                               analyzing, toast, dropVars, cidx, analysisResult,
                               deleteVars>>

\* ----------------------------------------------- handleUpload: upload phase

\* handleUpload returns: its locals are gone.
Return ==
    /\ pc' = "idle"
    /\ batch' = <<>>
    /\ idx' = 0
    /\ storagePath' = NoPath
    /\ uploadedImages' = <<>>
    /\ cidx' = 0
    /\ analysisResult' = NoResult
    /\ before' = NoStore

\* catch (error) of handleUpload: the message is reported and uploading ends;
\* the selection, the progress and the store are left as they are.
Catch(message) ==
    /\ toast' = message
    /\ uploading' = FALSE
    /\ Return

\* Variant of UploadAnswers for {upsert: true}: a path that holds an object
\* is overwritten.
UploadAnswersUpsert(path) == Answers

\* upload(storagePath, file, {upsert: false}): a path that holds an object
\* is refused.
UploadAnswers(path) == IF path \in objects THEN {"error"} ELSE Answers

\* Variant of InsertAnswers for a table without the trigger.
InsertAnswersNoTrigger == Answers

\* insert(): the table's trigger refuses a row beyond the user's 60
\* (part_000, Constraints).
InsertAnswers == IF RowCount(UserId) >= maxImages THEN {"error"} ELSE Answers

\* Variant of StorageUploadReturns that does not throw on storageError
\* (lines 200-202 left out): the insert is sent all the same.
StorageUploadReturnsNoThrow ==
    /\ pc = "storage"
    /\ \E answer \in UploadAnswers(storagePath) :
        objects' = IF answer = "error" THEN objects ELSE objects \cup {storagePath}
    /\ pc' = "insert"
    /\ UNCHANGED <<toast, uploading, batchVars>>
    /\ UNCHANGED <<query, cards, clock, resize, user, now, records, otherRows, nextId, readerVars,
                   pendingVars, uploadProgress, analyzing, dropVars,
                   deleteVars, nBatches>>

\* The store answers the upload of file idx: an error is thrown to the catch
\* block with the file's name, otherwise the row's insert is sent.
StorageUploadReturns ==
    /\ pc = "storage"
    /\ \E answer \in UploadAnswers(storagePath) :
        IF answer = "error"
        THEN /\ Catch(Toast("UploadFailed", 0, batch[idx]))
             /\ UNCHANGED objects
        ELSE /\ objects' = objects \cup {storagePath}
             /\ pc' = "insert"
             /\ UNCHANGED <<toast, uploading, batchVars>>
    /\ UNCHANGED <<query, cards, clock, resize, user, now, records, otherRows, nextId, readerVars,
                   pendingVars, uploadProgress, analyzing, dropVars,
                   deleteVars, nBatches>>

\* Math.round((uploadedCount / totalFiles) * 100)
Progress(uploadedCount, totalFiles) ==
    (200 * uploadedCount + totalFiles) \div (2 * totalFiles)

\* Variant of MoreFiles for a loop that ends after its first file.
MoreFilesNever(i, files) == FALSE

\* for (let i = 0; i < selectedFiles.length; i++): a file follows file i.
MoreFiles(i, files) == i < Len(files)

\* The table answers the insert of file idx. On an error the compensating
\* remove is sent. Otherwise the row is pushed and either the next file
\* starts or, after the last one, the classification phase starts with the
\* fetch of the first row's image.
InsertReturns ==
    /\ pc = "insert"
    /\ \E answer \in InsertAnswers :
        IF answer = "error"
        THEN /\ pc' = "remove"
             /\ UNCHANGED <<now, records, nextId, uploading, uploadProgress,
                            analyzing, toast, idx, storagePath, uploadedImages,
                            cidx>>
        ELSE LET row == NewRow(nextId, UserId, storagePath)
                 uploadedCount == Len(uploadedImages) + 1
             IN  /\ records' = [i \in DOMAIN records \cup {nextId} |->
                                   IF i = nextId THEN row ELSE records[i]]
                 /\ nextId' = nextId + 1
                 /\ uploadedImages' = Append(uploadedImages, Image(row))
                 /\ IF MoreFiles(idx, batch)
                    THEN /\ uploadProgress' = Progress(uploadedCount, Len(batch))
                         /\ StartFile(idx + 1, batch)
                         /\ UNCHANGED <<uploading, analyzing, toast, cidx>>
                    ELSE /\ uploadProgress' = 0
                         /\ uploading' = FALSE
                         /\ analyzing' = TRUE
                         /\ toast' = Toast("Analyzing", 0, "")
                         /\ cidx' = 1
                         /\ pc' = "fetch"
                         /\ UNCHANGED <<now, idx, storagePath>>
    /\ UNCHANGED <<query, cards, clock, resize, user, objects, otherRows, readerVars, pendingVars, dropVars,
                   batch, analysisResult, before, deleteVars, nBatches>>

\* Variant of RemoveReturns whose remove names the objects of every file the
\* batch has written, a rollback of the whole batch.
RemoveReturnsWholeBatch ==
    /\ pc = "remove"
    /\ \E answer \in Answers :
        objects' = IF answer = "ok"
                   THEN objects \ ({storagePath} \cup
                            {uploadedImages[i].storage_path :
                                i \in 1..Len(uploadedImages)})
                   ELSE objects
    /\ Catch(Toast("SaveRecordFailed", 0, ""))
    /\ UNCHANGED <<query, cards, clock, resize, user, now, records, otherRows, nextId, readerVars,
                   pendingVars, uploadProgress, analyzing, dropVars,
                   deleteVars, nBatches>>

\* Variant of RemoveReturns whose failure path clears the form as the end
\* of a batch does.
RemoveReturnsClearsForm ==
    /\ pc = "remove"
    /\ \E answer \in Answers :
        objects' = IF answer = "ok" THEN objects \ {storagePath} ELSE objects
    /\ Catch(Toast("SaveRecordFailed", 0, ""))
    /\ selectedFiles' = <<>>
    /\ previews' = <<>>
    /\ fileSizeInfo' = <<>>
    /\ UNCHANGED <<query, cards, clock, resize, user, now, records, otherRows, nextId, readerVars,
                   uploadProgress, analyzing, dropVars, deleteVars, nBatches>>

\* The store answers the compensating remove([storagePath]); its answer is
\* not read, and the insert's error is thrown.
RemoveReturns ==
    /\ pc = "remove"
    /\ \E answer \in Answers :
        objects' = IF answer = "ok" THEN objects \ {storagePath} ELSE objects
    /\ Catch(Toast("SaveRecordFailed", 0, ""))
    /\ UNCHANGED <<query, cards, clock, resize, user, now, records, otherRows, nextId, readerVars,
                   pendingVars, uploadProgress, analyzing, dropVars,
                   deleteVars, nBatches>>

\* --------------------------------------------------------- analyzeStoolImage

\* What the caption request can do: answer a description, or fail (a
\* non-2xx answer or a rejected fetch, both thrown by describeImage).
CaptionOutcomes == {"ok", "error"}

\* A JSON object of the shape the prompt asks for.
Judgement(relevant, bristol, size, health, warnings, notes) ==
    [isRelevant |-> relevant, bristolScore |-> bristol,
     sizeEstimation |-> size, healthIndicators |-> health,
     warnings |-> warnings, notes |-> notes]

\* The JSON objects the classification service's text is parsed to: a
\* relevant sample with its fields, an irrelevant image, and a relevant
\* sample whose score and size are not of the scales the prompt asks for
\* (the text is a language model's and JSON.parse accepts any object).
Judgements ==
    {Judgement(TRUE, <<4>>, <<"medium">>, "flags", <<"see a doctor">>, <<"normal">>),
     Judgement(FALSE, <<>>, <<>>, "nulls", <<>>, <<>>),
     Judgement(TRUE, <<9>>, <<"huge">>, "flags", <<>>, <<>>)}

\* The object analyzeWithLLM's catch block returns when no JSON object is
\* found in the text or JSON.parse throws.
ParseFallback ==
    Judgement(FALSE, <<>>, <<>>, "nulls",
              <<"Unable to parse analysis results">>,
              <<"Analysis failed - could not interpret image description">>)

\* What the classification request can do: fail, answer text without a
\* JSON object that parses, or answer text that holds one.
LLMOutcomes ==
    {[kind |-> k, json |-> ParseFallback] : k \in {"error", "unparsable"}}
    \cup {[kind |-> "json", json |-> j] : j \in Judgements}

\* analyzeWithLLM past response.ok: the parsed object, or the fallback object
\* of its catch block.
analyzeWithLLM(llm) ==
    IF llm.kind = "json" THEN llm.json ELSE ParseFallback

\* Variant of analyzeStoolImage whose failure results leave isRelevant true.
analyzeStoolImageRelevantOnFailure(caption, llm) ==
    IF caption = "error"
    THEN Result(FALSE, TRUE, <<>>, <<>>, "nulls",
                <<"Image analysis failed - please try again">>, <<>>)
    ELSE IF llm.kind = "error"
    THEN Result(FALSE, TRUE, <<>>, <<>>, "nulls",
                <<"Analysis processing failed - please try again">>, <<>>)
    ELSE LET analysis == analyzeWithLLM(llm)
         IN  Result(TRUE, analysis.isRelevant, analysis.bristolScore,
                    analysis.sizeEstimation, analysis.healthIndicators,
                    analysis.warnings, analysis.notes)

\* analyzeStoolImage: either request failing gives success = false with
\* isRelevant = false; otherwise the analysis is returned with success = true.
analyzeStoolImage(caption, llm) ==
    IF caption = "error"
    THEN Result(FALSE, FALSE, <<>>, <<>>, "nulls",
                <<"Image analysis failed - please try again">>, <<>>)
    ELSE IF llm.kind = "error"
    THEN Result(FALSE, FALSE, <<>>, <<>>, "nulls",
                <<"Analysis processing failed - please try again">>, <<>>)
    ELSE LET analysis == analyzeWithLLM(llm)
         IN  Result(TRUE, analysis.isRelevant, analysis.bristolScore,
                    analysis.sizeEstimation, analysis.healthIndicators,
                    analysis.warnings, analysis.notes)

\* ---------------------------------------- handleUpload: classification phase

\* The code after the classification try/catch/finally: analyzing ends, the
\* form is cleared, onRefetch (Dashboard's fetchImages) is called and
\* handleUpload returns when it answers, with nothing left to do.
Finish ==
    /\ analyzing' = FALSE
    /\ selectedFiles' = <<>>
    /\ previews' = <<>>
    /\ fileSizeInfo' = <<>>
    /\ fetching' = TRUE
    /\ Return

\* Variant of FetchImageReturns without the inner try/catch/finally: the
\* rejection reaches the catch block of the upload phase.
FetchImageReturnsToOuterCatch ==
    /\ pc = "fetch"
    /\ \E outcome \in {"ok", "throws"} :
        IF outcome = "throws"
        THEN /\ toast' = Toast("UploadFailed", 0, "")
             /\ Return
             /\ UNCHANGED <<analyzing, pendingVars, fetching>>
        ELSE /\ pc' = "analyze"
             /\ UNCHANGED <<toast, analyzing, pendingVars, fetching, batchVars>>
    /\ UNCHANGED <<query, cards, clock, resize, user, now, backendVars, images, galleryImages, galleryFetching,
                   uploading, uploadProgress, dropVars, deleteVars, nBatches>>

\* fetch(imageData.image_url) and response.blob() for row cidx: a rejection
\* leaves the for loop through catch (analysisError); otherwise
\* analyzeStoolImage is called.
FetchImageReturns ==
    /\ pc = "fetch"
    /\ \E outcome \in {"ok", "throws"} :
        IF outcome = "throws"
        THEN /\ toast' = Toast("AnalyzeFailed", 0, "")
             /\ Finish
        ELSE /\ pc' = "analyze"
             /\ UNCHANGED <<toast, analyzing, pendingVars, fetching, batchVars>>
    /\ UNCHANGED <<query, cards, clock, resize, user, now, backendVars, images, galleryImages, galleryFetching,
                   uploading, uploadProgress, dropVars, deleteVars, nBatches>>

\* The request row cidx waits on (the fetch of its image, or a request of
\* analyzeStoolImage to the caption or the classification service) is never
\* answered: no timeout or abort signal is passed, so the await never
\* resumes.
ExternalCallHangs ==
    /\ pc \in {"fetch", "analyze"}
    /\ pc' = "waiting"
    /\ UNCHANGED <<query, cards, clock, resize, user, now, backendVars, readerVars, pendingVars, uploading,
                   uploadProgress, analyzing, toast, dropVars, batch, idx,
                   storagePath, uploadedImages, cidx, analysisResult, before,
                   deleteVars, nBatches>>

\* analyzeStoolImage returns for row cidx and the row's update is sent: all
\* analysis columns when the result is a success and relevant, is_analyzed
\* alone in the two other branches.
AnalyzeReturns ==
    /\ pc = "analyze"
    /\ \E caption \in CaptionOutcomes, llm \in LLMOutcomes :
        analysisResult' = analyzeStoolImage(caption, llm)
    /\ pc' = "update"
    /\ UNCHANGED <<query, cards, clock, resize, user, now, backendVars, readerVars, pendingVars, uploading,
                   uploadProgress, analyzing, toast, dropVars, batch, idx,
                   storagePath, uploadedImages, cidx, before, deleteVars,
                   nBatches>>

\* Variant of Updated that writes the result's fields in every branch.
UpdatedAllFields(row, result) ==
    [row EXCEPT !.bristol_score = result.bristolScore,
                !.size_score = result.sizeEstimation,
                !.health_indicators = <<result.healthIndicators>>,
                !.analysis_notes = result.notes,
                !.warnings = result.warnings,
                !.is_analyzed = TRUE]

\* The columns the update of the row writes.
Updated(row, result) ==
    IF result.success /\ result.isRelevant
    THEN [row EXCEPT !.bristol_score = result.bristolScore,
                     !.size_score = result.sizeEstimation,
                     !.health_indicators = <<result.healthIndicators>>,
                     !.analysis_notes = result.notes,
                     !.warnings = result.warnings,
                     !.is_analyzed = TRUE]
    ELSE [row EXCEPT !.is_analyzed = TRUE]

\* The notification that follows the update's answer.
UpdateToast(result, answer, id) ==
    IF result.success /\ result.isRelevant
    THEN IF answer = "error" THEN Toast("UpdateFailed", id, "")
         ELSE Toast("AnalysisComplete", 0, "")
    ELSE IF ~result.isRelevant THEN Toast("NotValidSample", 0, "")
    ELSE Toast("AnalysisFailed", 0, "")

\* The table answers the update of row cidx (.eq('id', imageData.id): no row
\* is touched when the row is gone). The loop goes on to the next row, and
\* past the last one the batch finishes.
UpdateReturns ==
    /\ pc = "update"
    /\ LET id == uploadedImages[cidx].id
       IN  \E answer \in Answers :
            /\ records' = IF answer = "ok" /\ id \in DOMAIN records
                          THEN [records EXCEPT ![id] = Updated(@, analysisResult)]
                          ELSE records
            /\ toast' = UpdateToast(analysisResult, answer, id)
    /\ IF cidx < Len(uploadedImages)
       THEN /\ cidx' = cidx + 1
            /\ pc' = "fetch"
            /\ analysisResult' = NoResult
            /\ UNCHANGED <<analyzing, pendingVars, fetching, batch, idx,
                           storagePath, uploadedImages, before>>
       ELSE Finish
    /\ UNCHANGED <<query, cards, clock, resize, user, now, objects, otherRows, nextId, images, galleryImages,
                   galleryFetching, uploading, uploadProgress, dropVars,
                   deleteVars, nBatches>>

\* ------------------------------------------------------------------ ImageCard

\* The cards ImageGallery renders: none while loading.
displayedImages == IF galleryFetching THEN {} ELSE galleryImages.rows

\* The Delete button of a card (disabled while deleting), confirmed:
\* handleDelete up to its first await, the storage removal.
handleDelete(image) ==
    /\ delPc = "idle"
    /\ nDeletes < MaxDeletes
    /\ image.id \notin deleting
    /\ nDeletes' = nDeletes + 1
    /\ deleting' = deleting \cup {image.id}
    /\ delImage' = image
    /\ delPc' = "storage"
    /\ UNCHANGED <<query, cards, clock, resize, user, now, backendVars, readerVars, pendingVars, uploading,
                   uploadProgress, analyzing, toast, dropVars, pc, batchVars,
                   cardToast, nBatches>>

\* The store answers remove([image.storage_path]): an error is thrown to the
\* catch block, otherwise the row's delete is sent.
DeleteStorageReturns ==
    /\ delPc = "storage"
    /\ \E answer \in Answers :
        IF answer = "error"
        THEN /\ cardToast' = Toast("DeleteFailed", 0, "")
             /\ deleting' = deleting \ {delImage.id}
             /\ delPc' = "idle"
             /\ UNCHANGED objects
        ELSE /\ objects' = objects \ {delImage.storage_path}
             /\ delPc' = "record"
             /\ UNCHANGED <<cardToast, deleting>>
    /\ UNCHANGED <<query, cards, clock, resize, user, now, records, otherRows, nextId, readerVars, pendingVars,
                   uploading, uploadProgress, analyzing, toast, dropVars, pc,
                   batchVars, delImage, nDeletes, nBatches>>

\* The table answers delete().eq('id', image.id): an error is thrown to the
\* catch block; on success the card reports it and, ImageGallery passing no
\* onDelete, stays as it is with deleting true.
DeleteRecordReturns ==
    /\ delPc = "record"
    /\ \E answer \in Answers :
        IF answer = "error"
        THEN /\ cardToast' = Toast("DeleteFailed", 0, "")
             /\ deleting' = deleting \ {delImage.id}
             /\ UNCHANGED records
        ELSE /\ records' = [i \in DOMAIN records \ {delImage.id} |-> records[i]]
             /\ cardToast' = Toast("Deleted", 0, "")
             /\ UNCHANGED deleting
    /\ delPc' = "idle"
    /\ UNCHANGED <<query, cards, clock, resize, user, now, objects, otherRows, nextId, readerVars, pendingVars,
                   uploading, uploadProgress, analyzing, toast, dropVars, pc,
                   batchVars, delImage, nDeletes, nBatches>>

\* -------------------------------------------------------------------- Next

\* The files one drop can hand to onDrop: one file, two files of one name,
\* two files of different names, the second oversized.
Drops == {<<"a">>, <<"a", "a">>, <<"a", "b">>}

\* The steps of handleUpload past its first await.
UploadSteps ==
    \/ StorageUploadReturns
    \/ InsertReturns
    \/ RemoveReturns
    \/ FetchImageReturns
    \/ ExternalCallHangs
    \/ AnalyzeReturns
    \/ UpdateReturns

\* The uploader and Dashboard's reader: the session of a user who adds and
\* removes pending files and uploads them.
Next ==
    \/ FetchImagesReturns
    \/ SignOut
    \/ \E acceptedFiles \in Drops : onDrop(acceptedFiles)
    \/ \E d \in 1..Len(drops) : onDropResized(d)
    \/ \E name \in Names : PreviewLoaded(name)
    \/ \E index \in 1..Len(previews) : removeFile(index)
    \/ handleUpload
    \/ UploadSteps

Spec == Init /\ [][Next]_vars

\* The uploader, both readers and the cards: the session of a user who adds
\* files, uploads them and deletes displayed images, while no preview reader
\* fires.
NextGallery ==
    \/ FetchImagesReturns
    \/ GalleryFetchReturns
    \/ SignOut
    \/ \E acceptedFiles \in Drops : onDrop(acceptedFiles)
    \/ \E d \in 1..Len(drops) : onDropResized(d)
    \/ handleUpload
    \/ UploadSteps
    \/ \E image \in displayedImages : handleDelete(image)
    \/ DeleteStorageReturns
    \/ DeleteRecordReturns

SpecGallery == Init /\ [][NextGallery]_vars

\* At most one handleUpload invocation runs: the button is disabled while
\* one does (the model keeps one pc).
OneInvocation == canUpload => pc = "idle"

\* resizeImage alone, called on each of Files and then on its own result.
InitResize ==
    /\ InitSession
    /\ \E file \in Files : resize = StartResize(file, 1, NoResized)
    /\ query = NoQuery
    /\ cards = NoCards
    /\ clock = 0

NextResize ==
    \/ ImageLoaded
    \/ ImageFails
    \/ BlobReady
    \/ ResizeAgain

SpecResize == InitResize /\ [][NextResize]_vars

\* fetchImages alone, run on each of Tables.
InitQuery ==
    /\ InitSession
    /\ resize = NoResize
    /\ \E t \in Tables : query = Query(Table(t), "idle", <<>>)
    /\ cards = NoCards
    /\ clock = 0

NextQuery ==
    \/ fetchImages
    \/ SelectReturns

SpecQuery == InitQuery /\ [][NextQuery]_vars

\* The cards of a rendered gallery alone.
InitCards ==
    /\ InitSession
    /\ resize = NoResize
    /\ query = NoQuery
    /\ cards = MountedCards
    /\ clock = 0

NextCards ==
    \/ \E i \in 1..MaxCards : SignedUrlReturns(i)
    \/ Tick

SpecCards == InitCards /\ [][NextCards]_vars

\* The uploader with one file already selected and Dashboard's images
\* loaded: the session of a user who presses Upload and drops further files
\* while the batch runs.
InitLateDrop ==
    /\ user = UserId
    /\ now = 0
    /\ \E n \in (maxImages - MaxFree - 1)..(maxImages - 1) :
        /\ records = [i \in 1..MaxDeletes |-> OldRow(i)]
        /\ objects = {OldRow(i).storage_path : i \in 1..MaxDeletes}
        /\ otherRows = n - MaxDeletes
        /\ nextId = MaxDeletes + 1
        /\ images = [rows |-> {Image(OldRow(i)) : i \in 1..MaxDeletes},
                     others |-> n - MaxDeletes]
    /\ fetching = FALSE
    /\ galleryImages = NoImages /\ galleryFetching = TRUE
    /\ selectedFiles = <<"a">> /\ previews = <<"a">>
    /\ fileSizeInfo = <<[name |-> "a", wasCompressed |-> wasCompressed("a")]>>
    /\ uploading = FALSE /\ uploadProgress = 0 /\ analyzing = FALSE
    /\ toast = NoToast
    /\ drops = <<>> /\ readers = [n \in Names |-> 0]
    /\ pc = "idle" /\ batch = <<>> /\ idx = 0
    /\ storagePath = NoPath
    /\ uploadedImages = <<>> /\ cidx = 0 /\ analysisResult = NoResult
    /\ before = NoStore
    /\ delPc = "idle" /\ delImage = Image(OldRow(1))
    /\ deleting = {} /\ cardToast = NoToast
    /\ nDrops = 0 /\ nBatches = 0 /\ nDeletes = 0
    /\ resize = NoResize
    /\ query = NoQuery
    /\ cards = NoCards
    /\ clock = 0

NextLateDrop ==
    \/ FetchImagesReturns
    \/ \E acceptedFiles \in Drops : onDrop(acceptedFiles)
    \/ \E d \in 1..Len(drops) : onDropResized(d)
    \/ handleUpload
    \/ UploadSteps

SpecLateDrop == InitLateDrop /\ [][NextLateDrop]_vars

\* ------------------------------------------------------------------ claims

\* The positions of handleUpload in its upload phase and in its
\* classification phase.
UploadPhase == {"storage", "insert", "remove"}
ClassifyPhase == {"fetch", "analyze", "update", "waiting"}

\* The storage paths and the ids of the rows the running batch has inserted.
UploadedPaths == {uploadedImages[i].storage_path : i \in 1..Len(uploadedImages)}
UploadedIds == {uploadedImages[i].id : i \in 1..Len(uploadedImages)}

\* C1: when the insert of a file's record has failed, handleUpload returns
\* with no object in the store at that file's storage path, whatever the
\* compensating remove answered.
C1_Compensated ==
    [][(pc = "remove" /\ pc' = "idle") => storagePath \notin objects']_vars

\* C2: a press of Upload with currentImageCount + N > 60 is rejected with
\* the message that carries exactly 60 - currentImageCount, and nothing is
\* sent to the store.
C2_QuotaRejected ==
    [][(handleUpload /\ currentImageCount + Len(selectedFiles) > 60)
        => /\ toast' = Toast("OnlyMore", 60 - currentImageCount, "")
           /\ pc' = "idle"
           /\ ~uploading'
           /\ UNCHANGED backendVars]_vars

\* The table holds 59 rows and Dashboard has read them, two files are
\* selected, and the press of Upload has been rejected with "1 more".
C2_Witness ==
    /\ toast = Toast("OnlyMore", 1, "")
    /\ currentImageCount = 59
    /\ Len(selectedFiles) = 2
    /\ pc = "idle"
    /\ ~uploading

\* C3: a press of Upload that fails validation (quota or no user) changes
\* nothing but the notification: no call is sent, the store, the selection
\* and the uploader's flags are as they were.
C3_NoSideEffects ==
    [][(handleUpload
        /\ Validation(currentImageCount, Len(selectedFiles), user) # NoToast)
        => UNCHANGED <<backendVars, pendingVars, uploading, uploadProgress,
                       analyzing, readerVars, pc, batchVars, nBatches>>]_vars

\* The user has signed out with files selected, and the press of Upload has
\* been rejected.
C3_Witness ==
    /\ toast.kind = "NotLoggedIn"
    /\ user = NoUser
    /\ Len(selectedFiles) > 0
    /\ pc = "idle"
    /\ ~uploading

C5_OneObjectOneRecord ==
    pc \in ClassifyPhase =>
        /\ Len(uploadedImages) = Len(batch)
        /\ Cardinality(UploadedPaths) = Len(batch)
        /\ Cardinality(UploadedIds) = Len(batch)
        /\ UploadedPaths \cap before.objects = {}
        /\ objects = before.objects \cup UploadedPaths
        /\ UploadedIds \cap before.rows = {}
        /\ DOMAIN records = before.rows \cup UploadedIds
        /\ \A i \in 1..Len(uploadedImages) :
            /\ records[uploadedImages[i].id].storage_path
                   = uploadedImages[i].storage_path
            /\ Cardinality({r \in DOMAIN records :
                   records[r].storage_path = uploadedImages[i].storage_path}) = 1

\* The upload phase of a batch of two files of the same name has succeeded.
C5_Witness ==
    /\ pc = "fetch"
    /\ cidx = 1
    /\ Len(batch) = 2
    /\ batch[1] = batch[2]

\* C6: the storage path derived for a file differs from the path of every
\* file the batch has uploaded before it.
C6_DistinctKeys ==
    pc \in UploadPhase => storagePath \notin UploadedPaths

\* C7: when the store write of a file fails, no row is inserted, nothing
\* more of the batch is sent, uploading ends and the reported message names
\* the file.
C7_StoreWriteFailure ==
    [][(pc = "storage" /\ pc' # "storage" /\ objects' = objects)
        => /\ pc' = "idle"
           /\ UNCHANGED <<records, otherRows, nextId>>
           /\ toast' = Toast("UploadFailed", 0, batch[idx])
           /\ ~uploading']_vars

\* The store write of the second file, "b", of the only batch has failed
\* after the first file was committed.
C7_Witness ==
    /\ toast = Toast("UploadFailed", 0, "b")
    /\ nBatches = 1
    /\ pc = "idle"
    /\ Cardinality(DOMAIN records) = MaxDeletes + 1

\* C8: when a file of the batch fails, the objects and the rows of the files
\* before it stay in the store as they are.
C8_NoRollback ==
    [][(pc \in UploadPhase /\ pc' = "idle")
        => \A i \in 1..Len(uploadedImages) :
            LET image == uploadedImages[i]
            IN  /\ image.storage_path \in objects => image.storage_path \in objects'
                /\ image.id \in DOMAIN records =>
                    /\ image.id \in DOMAIN records'
                    /\ records'[image.id] = records[image.id]]_vars

\* The insert of the second file of the only batch has failed, and the row
\* and the object of the first are in the store.
C8_Witness ==
    /\ toast.kind = "SaveRecordFailed"
    /\ nBatches = 1
    /\ pc = "idle"
    /\ \E r \in DOMAIN records :
        r > MaxDeletes /\ records[r].storage_path \in objects

\* C9: the classification phase ends at the last row of the batch: a failure
\* at one row keeps no later row from analyzeStoolImage and from its update.
C9_LaterRecordsClassified ==
    [][(pc \in ClassifyPhase /\ pc' = "idle") => cidx = Len(uploadedImages)]_vars

\* C10: when the classification phase has finished, every row the batch
\* inserted has is_analyzed true.
C10_AllAnalyzed ==
    [][(pc \in ClassifyPhase /\ pc' = "idle")
        => \A id \in UploadedIds :
            id \in DOMAIN records' => records'[id].is_analyzed]_vars

\* C11: whatever happens while classifying, handleUpload leaves the
\* classification phase only through its end: analyzing becomes false, the
\* form is cleared and onRefetch is called; the catch block of the upload
\* phase is not entered (uploading stays false, no upload error is reported)
\* and no object and no row is removed.
C11_ClassifyingReachesDone ==
    [][(pc \in ClassifyPhase)
        => /\ pc' \in ClassifyPhase \cup {"idle"}
           /\ (pc' = "idle" =>
                (~analyzing' /\ selectedFiles' = <<>> /\ previews' = <<>>
                 /\ fileSizeInfo' = <<>> /\ fetching'))
           /\ ~uploading'
           /\ toast'.kind \notin {"UploadFailed", "SaveRecordFailed"}
           /\ objects \subseteq objects'
           /\ DOMAIN records \subseteq DOMAIN records']_vars

\* The image fetch of the only batch's first row has thrown: the batch is
\* done, its refetch is on the way and its row and object are in the store.
C11_Witness ==
    /\ toast.kind = "AnalyzeFailed"
    /\ nBatches = 1
    /\ pc = "idle"
    /\ ~analyzing /\ ~uploading
    /\ selectedFiles = <<>>
    /\ fetching
    /\ \E r \in DOMAIN records :
        r > MaxDeletes /\ records[r].storage_path \in objects

\* C12: the update of a row writes, for a successful and relevant result,
\* the five classification columns from the result and is_analyzed = true;
\* in every other case is_analyzed = true alone, the five columns staying
\* empty. No other column and no other row is written.
C12_UpdateWrites ==
    [][(pc = "update" /\ records' # records)
        => LET id == uploadedImages[cidx].id
               old == records[id]
               new == records'[id]
           IN  /\ DOMAIN records' = DOMAIN records
               /\ \A r \in DOMAIN records \ {id} : records'[r] = records[r]
               /\ new.id = old.id /\ new.user_id = old.user_id
               /\ new.storage_path = old.storage_path
               /\ new.is_analyzed
               /\ IF analysisResult.success /\ analysisResult.isRelevant
                  THEN /\ new.bristol_score = analysisResult.bristolScore
                       /\ new.size_score = analysisResult.sizeEstimation
                       /\ new.health_indicators = <<analysisResult.healthIndicators>>
                       /\ new.analysis_notes = analysisResult.notes
                       /\ new.warnings = analysisResult.warnings
                  ELSE /\ new.bristol_score = <<>>
                       /\ new.size_score = <<>>
                       /\ new.health_indicators = <<>>
                       /\ new.analysis_notes = <<>>
                       /\ new.warnings = <<>>]_vars

\* A batch of two files has left one row with a relevant result's columns
\* and one row marked analyzed with every classification column empty.
C12_Witness ==
    \E r1, r2 \in DOMAIN records :
        /\ r1 > MaxDeletes /\ r2 > MaxDeletes
        /\ records[r1].is_analyzed /\ records[r1].bristol_score = <<4>>
        /\ records[r1].warnings # <<>>
        /\ records[r2].is_analyzed /\ records[r2].bristol_score = <<>>
        /\ records[r2].warnings = <<>>

\* C13: a row the running batch has inserted is in the set ImageGallery
\* displays, or a query of the gallery's reader that can bring it is in
\* flight, from its insert on and whatever the state of its classification.
C13_VisibleAfterInsert ==
    \A i \in 1..Len(uploadedImages) :
        (user = UserId /\ uploadedImages[i].id \in DOMAIN records)
            => (galleryFetching \/ uploadedImages[i] \in galleryImages.rows)

\* C14: when handleUpload returns from a batch that has changed the table
\* (it leaves rows the batch did not find), whether the batch is done or has
\* failed part-way, onRefetch has been called: Dashboard's query, which
\* brings the count of the next quota check, is in flight.
C14_RefetchAfterChange ==
    [][(pc # "idle" /\ pc' = "idle" /\ DOMAIN records' # before.rows)
        => fetching']_vars

\* The notifications a batch that reached the end of its classification
\* phase leaves.
DoneToasts == {"AnalysisComplete", "UpdateFailed", "NotValidSample",
               "AnalysisFailed", "AnalyzeFailed"}

\* C15: once a batch is done and its refetch has brought Dashboard the
\* user's rows as they are in the table, the set ImageGallery displays (its
\* reader having loaded) is that same set: displayed set, count and table
\* agree.
C15_DisplayedAndCountMatchStore ==
    (/\ pc = "idle" /\ toast.kind \in DoneToasts
     /\ user = UserId
     /\ ~fetching /\ images = SelectImages(UserId)
     /\ ~galleryFetching /\ Length(galleryImages) > 0)
        => galleryImages = images

\* C16: no step of handleUpload but the end of a batch touches the pending
\* selection: a rejected press, every step of the upload phase and both of
\* its failure exits leave selectedFiles, previews and fileSizeInfo as they
\* are, and at a failure exit the files the batch was called with are still
\* the first of selectedFiles.
C16_PendingPreserved ==
    [][/\ ((handleUpload \/ pc' # pc) /\ ~(pc \in ClassifyPhase /\ pc' = "idle"))
            => UNCHANGED pendingVars
       /\ (pc \in UploadPhase /\ pc' = "idle")
            => /\ Len(selectedFiles') >= Len(batch)
               /\ SubSeq(selectedFiles', 1, Len(batch)) = batch]_vars

\* The insert of the second file of the batch "a", "b" has failed, and both
\* files are still selected with their previews.
C16_Witness ==
    /\ toast.kind = "SaveRecordFailed"
    /\ nBatches = 1
    /\ pc = "idle"
    /\ selectedFiles = <<"a", "b">>
    /\ Len(previews) = 2
    /\ Len(fileSizeInfo) = 2
    /\ Cardinality(DOMAIN records) = MaxDeletes + 1

\* C17: the result analyzeStoolImage returns for a classification response
\* that cannot be parsed reports a failed classification: its success is
\* false.
C17_UnparsableIsFailure ==
    (pc = "update" /\ analysisResult.warnings = ParseFallback.warnings)
        => ~analysisResult.success

\* C18: an external call that never responds is bounded: while handleUpload
\* waits on one, a step of it is enabled (the expiry of a timeout, which
\* ends the wait as a failure of that row).
C18_CallsBounded == pc = "waiting" => ENABLED UploadSteps

\* C19: resizeImage on a file within both limits resolves with that same
\* file, wasCompressed false and newSize = originalSize = its size; called
\* again on the file it resolved with, it resolves with the same value.
C19_InLimitUnchanged ==
    (/\ resize.pc = "resolved"
     /\ resize.file.width <= MAX_WIDTH
     /\ resize.file.size <= MAX_FILE_SIZE)
        => /\ resize.result.file = resize.file
           /\ ~resize.result.wasCompressed
           /\ resize.result.originalSize = resize.file.size
           /\ resize.result.newSize = resize.file.size
           /\ (resize.pass = 2 /\ ~resize.first.wasCompressed)
                => resize.result = resize.first

\* The second invocation on a file exactly at both limits has resolved.
C19_Witness ==
    /\ resize.pc = "resolved"
    /\ resize.pass = 2
    /\ resize.file.width = MAX_WIDTH
    /\ resize.file.size = MAX_FILE_SIZE
    /\ ~resize.first.wasCompressed

\* What resizeImage resolves with for a file beyond a limit: a new file at
\* most MAX_WIDTH wide, of the truncated scaled height (the height itself
\* when the width was within the limit), and of at most MAX_FILE_SIZE bytes
\* unless quality or attempts ended the loop.
ResolvedWithinLimits ==
    (resize.pc = "resolved" /\ needsResize(resize.file.width, resize.file.size))
        => LET out == resize.result.file
               input == resize.file
           IN  /\ resize.result.wasCompressed
               /\ out.width <= MAX_WIDTH
               /\ input.width <= MAX_WIDTH =>
                    (out.width = input.width /\ out.height = input.height)
               /\ input.width > MAX_WIDTH =>
                    /\ out.width = MAX_WIDTH
                    /\ out.height * input.width <= input.height * MAX_WIDTH
                    /\ input.height * MAX_WIDTH < (out.height + 1) * input.width
               /\ \/ out.size <= MAX_FILE_SIZE
                  \/ ~AboveFloor(resize.quality)
                  \/ resize.attempts >= maxAttempts

\* C20: resizeImage on an image beyond the width or the byte-size limit,
\* once the image is decoded, always ends by resolving, with an output
\* within the limits as ResolvedWithinLimits says.
C20_OversizedResized ==
    needsResize(resize.file.width, resize.file.size)
        => /\ resize.pc \in {"decode", "encode", "resolved", "unreadable"}
           /\ ResolvedWithinLimits

\* The toBlob callbacks of one invocation number at most maxAttempts + 1,
\* and a callback on a canvas with pixels retries or resolves.
EncodesBounded ==
    /\ resize.attempts <= maxAttempts
    /\ resize.quality = resize.attempts

\* C21: the compression loop stops at the first encoding within
\* MAX_FILE_SIZE, at the encoding made at the quality floor (0.9 lowered
\* four times by 0.1, i.e. 0.5) or after maxAttempts retries, whichever comes
\* first: no encoding is requested at a quality below the floor.
C21_LoopStops ==
    [][(resize.pc = "encode" /\ resize.width > 0 /\ resize.height > 0)
        => \/ resize'.pc = "resolved"
           \/ /\ resize'.pc = "encode"
              /\ resize'.attempts <= maxAttempts
              /\ 9 - resize'.quality >= 5]_vars

\* C22: the array fetchImages sets holds only rows of the user, and along it
\* display_order does not decrease (an absent one after every present one),
\* rows of equal or both absent display_order being in descending
\* created_at.
C22_OwnRowsOrdered ==
    query.pc = "done"
        => /\ \A i \in DOMAIN query.images : query.images[i].user_id = UserId
           /\ \A i \in 1..(Len(query.images) - 1) :
                LET a == query.images[i]
                    b == query.images[i + 1]
                IN  \/ /\ a.display_order # <<>> /\ b.display_order # <<>>
                       /\ a.display_order[1] < b.display_order[1]
                    \/ a.display_order # <<>> /\ b.display_order = <<>>
                    \/ /\ a.display_order = b.display_order
                       /\ a.created_at >= b.created_at

\* Two rows of the user were answered, both without display_order and of
\* different created_at, from a table with a row of another user.
C22_Witness ==
    /\ query.pc = "done"
    /\ Len(query.images) = 2
    /\ query.images[1].display_order = <<>>
    /\ query.images[2].display_order = <<>>
    /\ query.images[1].created_at > query.images[2].created_at
    /\ \E row \in query.table : row.user_id = OtherUser

\* C23: no ImageCard holds, and so displays its image through, a signed URL
\* whose expiry has passed.
C23_NoExpiredUrl ==
    \A i \in DOMAIN cards :
        cards[i].imageUrl # <<>> => clock < cards[i].imageUrl[1].expires

\* C24: when a card's signed-URL request ends, with a URL or with an error,
\* that card has loading = false and imageUrl either null or the URL of its
\* own path, every other card is as it was and so are the gallery's images.
C24_OnlyThatCard ==
    [][\A i \in DOMAIN cards :
        (cards[i].pending /\ ~cards'[i].pending)
            => /\ ~cards'[i].loading
               /\ \/ cards'[i].imageUrl = <<>>
                  \/ cards'[i].imageUrl[1].path = i
               /\ \A j \in DOMAIN cards \ {i} : cards'[j] = cards[j]
               /\ galleryImages' = galleryImages]_vars

\* One card failed to load while another shows its image.
C24_Witness ==
    \E i, j \in DOMAIN cards :
        /\ ~cards[i].pending /\ ~cards[i].loading /\ cards[i].imageUrl = <<>>
        /\ ~cards[j].pending /\ ~cards[j].loading /\ cards[j].imageUrl # <<>>

\* C25: an error is never silent: once the signed-URL request of a card has
\* failed, a notification has been raised.
C25_SignedUrlFailureNotified ==
    \A i \in DOMAIN cards :
        (~cards[i].pending /\ cards[i].imageUrl = <<>>)
            => (toast # NoToast \/ cardToast # NoToast)

\* The number of entries of a list that are the file called name.
Occurrences(list, name) == Cardinality({i \in DOMAIN list : list[i] = name})

\* C26: a file removed with its X button before the upload starts is not in
\* the batch the following handleUpload writes and inserts, and the other
\* pending files are: with every drop and preview finished, the batch
\* handleUpload starts is the files whose previews are shown.
C26_RemovedNotUploaded ==
    [][(/\ pc = "idle" /\ pc' = "storage"
        /\ drops = <<>>
        /\ \A name \in Names : readers[name] = 0)
        => \A name \in Names :
            Occurrences(batch', name) = Occurrences(previews, name)]_vars

\* Once handleUpload has started, the files it processes are the files it
\* was started with, whatever is dropped or removed meanwhile, and each
\* file's requests are answered before the next is taken.
BatchFixed ==
    [][(pc # "idle" /\ pc' # "idle") => batch' = batch]_vars

\* C27: every stored record's bristol_score is absent or an integer of 1..7
\* and its size_score is absent or one of small, medium, large.
C27_ScoresInRange ==
    \A id \in DOMAIN records :
        /\ records[id].bristol_score # <<>> => records[id].bristol_score[1] \in 1..7
        /\ records[id].size_score # <<>>
            => records[id].size_score[1] \in {"small", "medium", "large"}

\* C28: the files of a batch are taken one at a time in selection order: a
\* store write is answered before the insert of its file is issued, and the
\* store write of a file is issued only when the file before it has been
\* inserted, so that one request of the upload phase is in flight.
C28_OneFileAtATime ==
    [][/\ (pc = "storage" /\ (pc' # "storage" \/ idx' # idx) /\ pc' # "idle")
            => /\ pc' = "insert" /\ idx' = idx /\ storagePath' = storagePath
               /\ storagePath \in objects'
       /\ (pc' = "storage" /\ (pc # "storage" \/ idx' # idx))
            => /\ storagePath'.name = batch'[idx']
               /\ Len(uploadedImages') = idx' - 1
               /\ \A i \in 1..Len(uploadedImages') :
                    uploadedImages'[i].id \in DOMAIN records'
               /\ \/ pc = "idle" /\ idx' = 1
                  \/ pc = "insert" /\ idx' = idx + 1
                        /\ uploadedImages'[idx].storage_path = storagePath]_vars

\* The store write of the second file is in flight, the first file inserted.
C28_Witness ==
    /\ pc = "storage"
    /\ idx = 2
    /\ batch = <<"a", "b">>
    /\ Len(uploadedImages) = 1
    /\ uploadedImages[1].id \in DOMAIN records

\* C29: while a classification call of a batch is under way, every file of
\* the batch has been written and inserted: each record handed to
\* classification is in the table and its object in the bucket.
C29_ClassifyAfterAllInserted ==
    pc \in ClassifyPhase
        => /\ Len(uploadedImages) = Len(batch)
           /\ cidx \in 1..Len(uploadedImages)
           /\ \A i \in 1..Len(uploadedImages) :
                /\ uploadedImages[i].id \in DOMAIN records
                /\ records[uploadedImages[i].id].storage_path
                        = uploadedImages[i].storage_path
                /\ uploadedImages[i].storage_path \in objects
                /\ uploadedImages[i].storage_path.name = batch[i]

\* The image of the first of two inserted records is being fetched.
C29_Witness ==
    /\ pc = "fetch"
    /\ cidx = 1
    /\ Len(batch) = 2
    /\ Len(uploadedImages) = 2

\* C30: whenever handleUpload's validation passes, with Dashboard's images
\* loaded and no fetchImages query in flight, the currentImageCount it
\* compared against is the number of the user's rows in the table; this is
\* what keeps an insert from being issued at 60 rows.
C30_CountIsStoreCount ==
    [][(/\ pc = "idle" /\ pc' = "storage"
        /\ ~fetching /\ Length(images) > 0)
        => currentImageCount = RowCount(UserId)]_vars

\* An insert is in flight while the table holds the user's 60 rows, in a
\* batch at whose start, with no query in flight, images was one row short
\* of the table.
InsertAtSixty ==
    /\ pc = "insert"
    /\ RowCount(UserId) >= maxImages
    /\ ~fetching
    /\ Length(images) = Cardinality(before.rows) + otherRows - 1

\* The rows this session inserted for the file called name.
RowsFor(name) ==
    {id \in DOMAIN records :
        id > MaxDeletes /\ records[id].storage_path.name = name}

\* C31: while a batch of the whole selection runs, a batch before it having
\* failed, no file has more rows than the selection has files of its name:
\* the files the failed batch committed are not inserted a second time.
C31_NoSecondRecord ==
    (pc # "idle" /\ Len(batch) = 2)
        => \A name \in Names :
            Cardinality(RowsFor(name)) <= Occurrences(batch, name)

\* C32: the pending selection never holds more files than the user has
\* slots left: selectedFiles.length <= 60 - currentImageCount.
C32_SelectionWithinSlots == Len(selectedFiles) <= maxImages - currentImageCount

\* C33: with every drop and every preview reader finished, the three arrays
\* are aligned: position i of previews, selectedFiles and fileSizeInfo is
\* the same file, for every i.
C33_ArraysAligned ==
    (drops = <<>> /\ \A name \in Names : readers[name] = 0)
        => /\ Len(previews) = Len(selectedFiles)
           /\ Len(fileSizeInfo) = Len(selectedFiles)
           /\ \A i \in DOMAIN selectedFiles :
                /\ previews[i] = selectedFiles[i]
                /\ fileSizeInfo[i].name = selectedFiles[i]

\* C34: when a batch reaches Done, the files of the selection that are not
\* of the batch, dropped while it ran, are still selected.
C34_LateFilesStayPending ==
    [][(pc \in ClassifyPhase /\ pc' = "idle")
        => selectedFiles' = SubSeq(selectedFiles, Len(batch) + 1,
                                   Len(selectedFiles))]_vars

\* C35: while a handleUpload invocation is between its validation and the
\* end of its classification phase, uploading or analyzing is true and the
\* Upload button is disabled, so no second batch starts beside it.
C35_OneBatch ==
    pc # "idle" => ((uploading \/ analyzing) /\ ~canUpload)

\* A batch is in its classification phase with files selected and slots
\* left: analyzing alone keeps the button disabled.
C35_Witness ==
    /\ pc = "fetch"
    /\ analyzing /\ ~uploading
    /\ Len(selectedFiles) > 0
    /\ remainingSlots > 0

\* C36: when handleDelete returns, the image's object is in the bucket if
\* and only if its row is in the table.
C36_ObjectIffRecord ==
    [][(delPc # "idle" /\ delPc' = "idle")
        => (delImage.storage_path \in objects'
                <=> delImage.id \in DOMAIN records')]_vars

\* C37: once handleDelete has succeeded for a displayed image, the gallery
\* is being refreshed or no longer displays that image (its card, which
\* stays in the deleting state, is gone).
C37_DeletedLeavesGallery ==
    (delPc = "idle" /\ cardToast.kind = "Deleted")
        => (galleryFetching \/ delImage \notin galleryImages.rows)

\* C38: a result of analyzeStoolImage with success = false has isRelevant =
\* false, so handleUpload takes its not-relevant branch for it and the
\* 'Analysis failed - please try again' branch is never taken.
C38_FailureIsNotRelevant ==
    /\ toast.kind # "AnalysisFailed"
    /\ (pc = "update" /\ ~analysisResult.success)
        => /\ ~analysisResult.isRelevant
           /\ \A answer \in {"ok", "error"} :
                UpdateToast(analysisResult, answer, uploadedImages[cidx].id).kind
                    = "NotValidSample"

\* The update that follows a failed classification is in flight.
C38_Witness ==
    /\ pc = "update"
    /\ ~analysisResult.success
    /\ analysisResult.warnings = <<"Analysis processing failed - please try again">>

\* C39: resizeImage yields a result for every file handed to it: an
\* invocation that has not resolved can always take a step.
C39_AlwaysYields ==
    resize.pc \notin {"idle", "resolved"} => ENABLED NextResize

====
